---- MODULE Spec2Model ----
(***************************************************************************)
(* The handle search of src/search.c: SearchProcess() and the helpers it   *)
(* calls (PhCreateHeap, PhAllocate, PhFree, PhEnumHandlesEx,               *)
(* PhOpenProcess).  One call of SearchProcess is modelled, statement by    *)
(* statement; every answer of the operating system (NtOpenProcess,         *)
(* NtDuplicateObject, GetFileType, NtQueryObject, the heap, the            *)
(* cancellation flag) is a nondeterministic choice.                        *)
(***************************************************************************)
EXTENDS Integers, Sequences, FiniteSets, TLC

\* ------------------------------------------------------------- bounds
\* Largest number of records of a snapshot.
MaxHandles == 3
\* How many records past the declared count the scan may walk over before
\* the memory it reads stops matching the memo (or faults).
MaxOverrun == 1
\* Longest resolved object name, in characters.
MaxNameLen == 2

\* ---------------------------------------------------------- constants
NULL == 0
\* NtCurrentProcess(): the pseudo-handle ((HANDLE)-1).
NtCurrentProcess == -1
\* GetCurrentProcessId() of the caller.
SelfPid == 1
\* static ULONG initialBufferSize = 0x10000
InitialBufferSize == 65536
\* if (bufferSize <= 0x200000) initialBufferSize = bufferSize
SeedCeiling == 2097152
\* PH_LARGE_BUFFER_SIZE (search.h): 256 MB
PH_LARGE_BUFFER_SIZE == 256 * 1024 * 1024
\* bufferSize = 0x200
NameBufferSize == 512
\* ULONG attempts = 8
MaxAttempts == 8
\* USHORT arithmetic (wHandleNameLen, Name.Length)
USHORT_MOD == 65536

\* Process ids of the records: 0 (the idle process, and the initial value
\* of last_access_denied_pid), the caller, two other processes.
PidValues == 0..3
\* Wide characters of the names; 0 is the terminator.
Chars == {1, 2}
\* Executable paths GetModuleFileNameExU can give; 0 is the empty string.
Paths == {1, 2}
\* The sizes NtQueryObject may report as required: 0 (smaller than any
\* buffer, too small for any name) and 0x200 (the size the buffer starts
\* with, larger than a buffer of 0 bytes).
ReturnSizes == {0, 512}

RECURSIVE SeqsUpTo(_)
SeqsUpTo(n) ==
    IF n = 0 THEN {<< >>}
    ELSE LET S == SeqsUpTo(n - 1)
         IN  S \cup {Append(s, c) : s \in {t \in S : Len(t) = n - 1}, c \in Chars}

\* Object names the name query can resolve.
Names == SeqsUpTo(MaxNameLen)
\* Targets of the search (HandleName), non-empty.
Targets == {<<1>>, <<1, 2>>}

\* Handle values.  A record's raw handle value is a multiple of 4; the
\* handles NtOpenProcess and NtDuplicateObject give to the caller are fresh.
HandleValueAt(k) == 4 * (k + 1)
ProcHandle(k) == 100 + k
DupHandle(k) == 200 + k

Record(p, k) == [UniqueProcessId |-> p, HandleValue |-> HandleValueAt(k)]

\* SYSTEM_HANDLE_INFORMATION_EX.  A snapshot declares at most MaxHandles
\* records.  Its records may hold any process ids; the loop reads each record
\* once, in order (line 408), and Handles holds the records read so far: the
\* content of a record is drawn when it is read (NextRecords).
Snapshots ==
    {[ptr |-> TRUE, NumberOfHandles |-> n, Handles |-> << >>] : n \in 0..MaxHandles}
NoSnapshot == [ptr |-> FALSE, NumberOfHandles |-> 0, Handles |-> << >>]

\* The records the snapshot may hold after those in recs.  The two other
\* processes are interchangeable: the first of them a snapshot names is 2.
NextRecords(recs) ==
    {Record(p, Len(recs)) : p \in {q \in PidValues :
        q = 3 => \E j \in 1..Len(recs) : recs[j].UniqueProcessId = 2}}

\* OBJECT_NAME_INFORMATION: Name.Length counts bytes, Name.Buffer is
\* terminated by a 0 character.
NameRecord(nm) == [Length |-> (2 * Len(nm)) % USHORT_MOD, Buffer |-> nm]
NoBuffer == [ptr |-> FALSE, Name |-> NameRecord(<< >>)]
\* Bytes the name query needs for a name: the UNICODE_STRING header, the
\* characters and the terminator.
NeededSize(nm) == 16 + 2 * (Len(nm) + 1)

Line(t, p) == [t |-> t, p |-> p]

NT_SUCCESS(s) == s \in {"SUCCESS", "ALREADY_COMPLETE"}

\* ------------------------------------------------------ pure functions
\* utf8_to_wchar on a target of 7-bit characters: one wide character per byte.
utf8_to_wchar(s) == [k \in 1..Len(s) |-> s[k] % 128]
wcslen(s) == Len(s)

\* The character at position k (from 1) of a 0-terminated string.
CharAt(s, k) == IF k <= Len(s) THEN s[k] ELSE 0

\* wcsncmp(a, b, n) from position k on: 0 when the first n characters agree
\* (the comparison stops at a terminator), else the sign of the difference.
RECURSIVE wcsncmpFrom(_, _, _, _)
wcsncmpFrom(a, b, n, k) ==
    IF k > n THEN 0
    ELSE IF CharAt(a, k) # CharAt(b, k)
         THEN (IF CharAt(a, k) < CharAt(b, k) THEN -1 ELSE 1)
         ELSE IF CharAt(a, k) = 0 THEN 0
              ELSE wcsncmpFrom(a, b, n, k + 1)
wcsncmp(a, b, n) == wcsncmpFrom(a, b, n, 1)

\* A match test without the two length tests of lines 497 and 501.
MatchTestNoLength(target, targetLen, partial, name) ==
    wcsncmp(target, name.Buffer, targetLen) = 0

\* A match test that compares only as many characters as the name has.
MatchTestCommon(target, targetLen, partial, name) ==
    /\ ~ ((~ partial) /\ targetLen # name.Length)
    /\ ~ (partial /\ targetLen > name.Length)
    /\ wcsncmp(target, name.Buffer,
               IF targetLen < Len(name.Buffer) THEN targetLen ELSE Len(name.Buffer)) = 0

\* Lines 496-506: the candidate is kept when none of the three tests skips it.
MatchTest(target, targetLen, partial, name) ==
    /\ ~ ((~ partial) /\ targetLen # name.Length)
    /\ ~ (partial /\ targetLen > name.Length)
    /\ wcsncmp(target, name.Buffer, targetLen) = 0

\* -------------------------------------------------------------- state
VARIABLES
    pc,                      \* the statement SearchProcess is at
    HandleName,              \* arguments of SearchProcess
    bPartialMatch,
    bIgnoreSelf,
    PhHeapHandle,            \* global: the private heap exists
    initialBufferSize,       \* static of PhEnumHandlesEx
    enumBuffer,              \* PhEnumHandlesEx: buffer points to a live block
    enumBufferSize,          \* PhEnumHandlesEx: bufferSize
    status,
    handles,
    buffer,
    bufferSize,
    i,
    pid,
    cur_pid,
    last_access_denied_pid,
    wHandleName,
    wHandleNameLen,
    dupHandle,
    processHandle,
    bFound,
    exe,
    cur_exe,
    attempts,
    handleInfo,              \* the record &handles->Handles[i] read by this iteration
    result,                  \* the value SearchProcess returned
    out,                     \* the lines given to uprintf
    nAlloc,                  \* live blocks of the private heap
    owned,                   \* handles NtOpenProcess / NtDuplicateObject gave, not yet closed
    badClose,                \* handles given to NtClose that the engine did not own
    calls,                   \* the OS calls of the iteration of record calls.idx
    nPassed,                 \* candidates that passed the match test
    exitBy                   \* how the label out was reached ("" before)

vars == <<pc, HandleName, bPartialMatch, bIgnoreSelf, PhHeapHandle, initialBufferSize,
          enumBuffer, enumBufferSize, status, handles, buffer, bufferSize, i, pid,
          cur_pid, last_access_denied_pid, wHandleName, wHandleNameLen, dupHandle,
          processHandle, bFound, exe, cur_exe, attempts, handleInfo, result, out,
          nAlloc, owned, badClose, calls, nPassed, exitBy>>

inputs == <<HandleName, bPartialMatch, bIgnoreSelf>>
enumVars == <<initialBufferSize, enumBuffer, enumBufferSize>>
scanVars == <<i, pid, cur_pid, last_access_denied_pid, dupHandle, processHandle,
              attempts, handleInfo>>
nameVars == <<buffer, bufferSize, wHandleName, wHandleNameLen>>
reportVars == <<bFound, exe, cur_exe, out, nPassed>>
handleGhosts == <<owned, badClose>>

\* What the iteration of record idx has done so far: the status PhOpenProcess
\* returned ("" when it was not called), the NtDuplicateObject calls, whether
\* NtQueryObject was called, whether the match test was reached and passed,
\* the executable path resolved for the report (0: none), what GetFileType
\* answered ("" when it was not called), what the last NtQueryObject call
\* answered ("" when there was none).
NoCalls(k) == [idx |-> k, open |-> "", dup |-> 0, query |-> FALSE, tested |-> FALSE,
               match |-> FALSE, path |-> 0, type |-> "", last |-> ""]

\* Lines 348-365 and the globals at lines 56 and 188: the state at the call.
Init ==
    /\ pc = "start"
    /\ HandleName \in Targets
    /\ bPartialMatch \in BOOLEAN
    /\ bIgnoreSelf \in BOOLEAN
    /\ PhHeapHandle = FALSE
    /\ initialBufferSize = InitialBufferSize
    /\ enumBuffer = FALSE
    /\ enumBufferSize = 0
    /\ status = "SUCCESS"
    /\ handles = NoSnapshot
    /\ buffer = NoBuffer
    /\ bufferSize = 0
    /\ i = 0
    /\ pid = [k \in 0..1 |-> 0]
    /\ cur_pid = 0
    /\ last_access_denied_pid = 0
    /\ wHandleName = << >>
    /\ wHandleNameLen = 0
    /\ dupHandle = NULL
    /\ processHandle = NULL
    /\ bFound = FALSE
    /\ exe = [k \in 0..1 |-> 0]
    /\ cur_exe = 0
    /\ attempts = 0
    /\ handleInfo = Record(0, 0)
    /\ result = FALSE
    /\ out = << >>
    /\ nAlloc = 0
    /\ owned = {}
    /\ badClose = {}
    /\ calls = NoCalls(0)
    /\ nPassed = 0
    /\ exitBy = ""

\* A summary that always asks to close the applications.
SummaryAlwaysClose == Line("close", 0)

\* Lines 526-529: the summary line.
Summary == Line(IF bFound THEN "close" ELSE "notfound", 0)

\* A returned value taken from the status of the set-up, not from bFound.
ReturnValueOfStatus == NT_SUCCESS(status)

\* Line 535: the returned value.
ReturnValue == bFound

\* The label out, lines 525-535, reached for the reason how with the lines o
\* printed, the name buffer b and the snapshot h: the summary line, the
\* release of the two buffers and of the heap, the returned value.
Finish(how, o, b, h) ==
    /\ exitBy' = how
    /\ out' = Append(o, Summary)
    /\ buffer' = [b EXCEPT !.ptr = FALSE]
    /\ handles' = [h EXCEPT !.ptr = FALSE]
    /\ nAlloc' = 0
    /\ PhHeapHandle' = FALSE
    /\ result' = ReturnValue
    /\ pc' = "done"

\* Lines 380-383: the failure of the set-up is reported and the call ends.
EnumFailed(st) ==
    /\ status' = st
    /\ Finish("status", Append(out, Line("warning", 0)), buffer, handles)

\* Lines 367-378 and PhEnumHandlesEx lines 193-200: the entry points are
\* resolved, the heap is created, the first buffer of the snapshot allocated.
SearchBegin ==
    /\ pc = "start"
    /\ \E r \in {"ok", "nocap", "noheap", "noquery", "nomem"} :
        /\ enumBufferSize' = IF r \in {"ok", "nomem"} THEN initialBufferSize ELSE enumBufferSize
        /\ enumBuffer' = (r = "ok")
        /\ CASE r = "ok" -> /\ pc' = "enum"
                            /\ PhHeapHandle' = TRUE
                            /\ nAlloc' = nAlloc + 1
                            /\ UNCHANGED <<status, out, exitBy, buffer, handles, result>>
             [] r = "nocap" -> EnumFailed("NOT_IMPLEMENTED")
             [] r = "noheap" -> EnumFailed("UNSUCCESSFUL")
             [] r = "noquery" -> EnumFailed("NOT_IMPLEMENTED")
             [] r = "nomem" -> EnumFailed("NO_MEMORY")
    /\ UNCHANGED <<inputs, initialBufferSize, scanVars, bufferSize, wHandleName,
                   wHandleNameLen, bFound, exe, cur_exe, nPassed, handleGhosts, calls>>

\* The snapshot query can succeed with this buffer: the snapshots of this
\* model fit in the first buffer, and a query that reports a mismatch for
\* that size reports it for every larger one.
SnapshotFits(size) == size <= InitialBufferSize

\* A ceiling test that lets one more doubling through.
TooLargeTwice(size) == size > 2 * PH_LARGE_BUFFER_SIZE

\* PhEnumHandlesEx lines 208-209: the doubled size is past the ceiling.
TooLarge(size) == size > PH_LARGE_BUFFER_SIZE

\* PhEnumHandlesEx lines 202-226, one query of the snapshot and what follows it.
EnumQuery ==
    /\ pc = "enum"
    /\ \/ \* STATUS_INFO_LENGTH_MISMATCH: free, double, check the ceiling, allocate
          \* (a ULONG; it stays below 2^30, so the doubling never wraps)
          LET doubled == enumBufferSize * 2
          IN  /\ enumBufferSize' = doubled
              /\ IF TooLarge(doubled)
                 THEN /\ enumBuffer' = FALSE
                      /\ EnumFailed("INSUFFICIENT_RESOURCES")
                 ELSE \/ /\ enumBuffer' = TRUE
                         /\ status' = "INFO_LENGTH_MISMATCH"
                         /\ UNCHANGED <<pc, out, exitBy, buffer, handles, nAlloc,
                                        PhHeapHandle, result>>
                      \/ /\ enumBuffer' = FALSE
                         /\ EnumFailed("NO_MEMORY")
              /\ UNCHANGED initialBufferSize
       \/ \* any other failure: free and return it
          /\ enumBuffer' = FALSE
          /\ EnumFailed("UNSUCCESSFUL")
          /\ UNCHANGED <<initialBufferSize, enumBufferSize>>
       \/ \* success: remember the size, hand the buffer over
          /\ SnapshotFits(enumBufferSize)
          /\ \E snap \in Snapshots : handles' = snap
          /\ initialBufferSize' = IF enumBufferSize <= SeedCeiling
                                  THEN enumBufferSize ELSE initialBufferSize
          /\ status' = "SUCCESS"
          /\ pc' = "setup"
          /\ UNCHANGED <<enumBuffer, enumBufferSize, nAlloc, out, exitBy, buffer,
                         PhHeapHandle, result>>
    /\ UNCHANGED <<inputs, scanVars, bufferSize, wHandleName, wHandleNameLen, bFound,
                   exe, cur_exe, nPassed, handleGhosts, calls>>

\* Lines 385-396: the slots, the wide target, the name buffer.
Setup ==
    /\ pc = "setup"
    /\ pid' = [pid EXCEPT ![0] = NULL]
    /\ cur_pid' = 1
    /\ exe' = [exe EXCEPT ![0] = 0]
    /\ cur_exe' = 1
    /\ wHandleName' = utf8_to_wchar(HandleName)
    /\ wHandleNameLen' = wcslen(utf8_to_wchar(HandleName)) % USHORT_MOD
    /\ bufferSize' = NameBufferSize
    /\ \/ /\ buffer' = [buffer EXCEPT !.ptr = TRUE]
          /\ nAlloc' = nAlloc + 1
          /\ pc' = "head"
          /\ UNCHANGED <<exitBy, out, handles, PhHeapHandle, result>>
       \/ Finish("alloc", out, NoBuffer, handles)
    /\ i' = 0
    /\ UNCHANGED <<inputs, enumVars, status, last_access_denied_pid, dupHandle,
                   processHandle, attempts, handleInfo, bFound, nPassed, handleGhosts,
                   calls>>

\* ------------------------------------------------------ the main loop
\* NtClose on each handle of hs: what the engine still owns, and the closes
\* of a handle it did not own (the caller's own handle, or a second close).
OwnedAfter(hs) == owned \ hs
BadCloseAfter(hs) == badClose \cup (hs \ owned)

\* `continue`: the for statement's i++ and the next iteration.  The block
\* of the loop is left, and with it its local attempts.
Continue ==
    /\ pc' = "head"
    /\ i' = i + 1
    /\ attempts' = 0

\* The name buffer when an iteration starts.  The name record is read only by
\* lines 497-505, right after the query that wrote it, so what the previous
\* iteration left in it is forgotten; the block and its size stay.
Stale(b) == [b EXCEPT !.Name = NameRecord(<< >>)]

\* What &handles->Handles[k] holds.  Below the declared count it is the
\* record of the snapshot.  At or past it the memory read is not part of the
\* snapshot and may hold any process id; after MaxOverrun such records the
\* model stops meeting the id the memo holds.
ReadRecord(k) ==
    IF k < handles.NumberOfHandles
    THEN IF k < Len(handles.Handles)
         THEN {handles.Handles[k + 1]}
         ELSE NextRecords(handles.Handles)
    ELSE {r \in NextRecords(handles.Handles) :
            k < handles.NumberOfHandles + MaxOverrun
                \/ r.UniqueProcessId # last_access_denied_pid}

\* The snapshot once record k has been read as rec.
Revealed(k, rec) ==
    IF k < handles.NumberOfHandles /\ k = Len(handles.Handles)
    THEN [handles EXCEPT !.Handles = Append(@, rec)]
    ELSE handles

\* A head of the loop that never closes the duplicated handle.
CloseDupNever == FALSE

\* Line 410: the duplicated handle of the previous iteration is closed.
CloseDupNeeded == (dupHandle # NULL) /\ (processHandle # NtCurrentProcess)

\* A scan that never consults the memo.
DeniedSkipNever(rec) == FALSE

\* Line 437: the record belongs to the process the memo holds.
DeniedSkip(rec) == rec.UniqueProcessId = last_access_denied_pid

\* An exit condition that is met one record early.
ExitLoopEarly == i + 1 >= handles.NumberOfHandles

\* Line 441: the exit condition of the loop.
ExitLoop == i >= handles.NumberOfHandles

\* Lines 406-442: the head of an iteration.
LoopHead ==
    /\ pc = "head"
    /\ \E rec \in ReadRecord(i), cancel \in BOOLEAN :
        LET pid1      == [pid EXCEPT ![cur_pid] = rec.UniqueProcessId]
            changed   == pid1[0] # pid1[1]
            closeProc == changed /\ processHandle # NULL
                                 /\ processHandle # NtCurrentProcess
            closed    == (IF CloseDupNeeded THEN {dupHandle} ELSE {})
                         \cup (IF closeProc THEN {processHandle} ELSE {})
        IN  /\ handleInfo' = rec
            /\ dupHandle' = IF CloseDupNeeded THEN NULL ELSE dupHandle
            /\ pid' = pid1
            /\ cur_pid' = IF changed THEN (cur_pid + 1) % 2 ELSE cur_pid
            /\ processHandle' = IF changed THEN NULL ELSE processHandle
            /\ owned' = OwnedAfter(closed)
            /\ badClose' = BadCloseAfter(closed)
            /\ calls' = NoCalls(i)
            /\ IF cancel \/ (~ DeniedSkip(rec) /\ ExitLoop)
               THEN /\ Finish(IF cancel THEN "cancel" ELSE "end", out, Stale(buffer),
                              Revealed(i, rec))
                    /\ i' = i /\ attempts' = MaxAttempts
               ELSE /\ buffer' = Stale(buffer)
                    /\ handles' = Revealed(i, rec)
                    /\ IF DeniedSkip(rec)
                       THEN Continue
                       ELSE pc' = "open" /\ i' = i /\ attempts' = MaxAttempts
                    /\ UNCHANGED <<exitBy, out, nAlloc, PhHeapHandle, result>>
    /\ UNCHANGED <<inputs, enumVars, status, bufferSize, wHandleName, wHandleNameLen,
                   last_access_denied_pid, bFound, exe, cur_exe, nPassed>>

\* Line 408 with i at or past the declared count: the read leaves the memory
\* of the process and the call dies.
LoopFault ==
    /\ pc = "head"
    /\ i >= handles.NumberOfHandles
    /\ pc' = "fault"
    /\ UNCHANGED <<inputs, PhHeapHandle, enumVars, status, handles, nameVars, scanVars,
                   reportVars, result, nAlloc, handleGhosts, calls, exitBy>>

\* A scan that opens the process of every record.
NeedOpenAlways == TRUE

\* Line 445: the process of this record is not the one already open.
NeedOpen == pid[0] # pid[1]

\* PhOpenProcess lines 243-258: the statuses it can return for a process id.
OpenStatuses(p) ==
    IF p = SelfPid THEN {"SUCCESS"} ELSE {"SUCCESS", "ACCESS_DENIED", "UNSUCCESSFUL"}

\* Line 453: the failure that is remembered.
IsAccessDenied(st) == st = "ACCESS_DENIED"

\* Lines 444-458: open the process of the record, unless it is open already.
OpenProcess ==
    /\ pc = "open"
    /\ IF NeedOpen
       THEN \E st \in OpenStatuses(handleInfo.UniqueProcessId) :
              /\ calls' = [calls EXCEPT !.open = st]
              /\ IF NT_SUCCESS(st)
                 THEN /\ processHandle' = IF handleInfo.UniqueProcessId = SelfPid
                                          THEN NtCurrentProcess ELSE ProcHandle(i)
                      /\ owned' = IF handleInfo.UniqueProcessId = SelfPid
                                  THEN owned ELSE owned \cup {ProcHandle(i)}
                      /\ pc' = "dup"
                      /\ UNCHANGED <<i, attempts, last_access_denied_pid>>
                 ELSE /\ processHandle' = NULL
                      /\ last_access_denied_pid' =
                            IF IsAccessDenied(st) THEN handleInfo.UniqueProcessId
                            ELSE last_access_denied_pid
                      /\ owned' = owned
                      /\ Continue
       ELSE /\ pc' = "dup"
            /\ UNCHANGED <<calls, processHandle, owned, i, attempts,
                           last_access_denied_pid>>
    /\ UNCHANGED <<inputs, PhHeapHandle, enumVars, status, handles, nameVars, pid, cur_pid,
                   dupHandle, handleInfo, reportVars, result, nAlloc, badClose, exitBy>>

\* Line 461: the record belongs to the caller's own process.
IsSelf == processHandle = NtCurrentProcess

\* A scan that never leaves the caller's own handles out.
SkipSelfNever == FALSE

\* Line 462: own handles are left out.
SkipSelf == bIgnoreSelf

\* Lines 460-470: bring the handle into the caller's process.
Duplicate ==
    /\ pc = "dup"
    /\ IF IsSelf
       THEN /\ IF SkipSelf
               THEN Continue /\ dupHandle' = dupHandle
               ELSE /\ dupHandle' = handleInfo.HandleValue
                    /\ pc' = "type"
                    /\ UNCHANGED <<i, attempts>>
            /\ UNCHANGED <<calls, owned>>
       ELSE /\ calls' = [calls EXCEPT !.dup = @ + 1]
            /\ \/ \* the duplication succeeds, with a live process handle only
                  /\ processHandle # NULL
                  /\ dupHandle' = DupHandle(i)
                  /\ owned' = owned \cup {DupHandle(i)}
                  /\ pc' = "type"
                  /\ UNCHANGED <<i, attempts>>
               \/ \* it fails; the OS may or may not have cleared *TargetHandle
                  /\ dupHandle' \in {dupHandle, NULL}
                  /\ owned' = owned
                  /\ Continue
    /\ UNCHANGED <<inputs, PhHeapHandle, enumVars, status, handles, nameVars, pid, cur_pid,
                   last_access_denied_pid, processHandle, handleInfo,
                   reportVars, result, nAlloc, badClose, exitBy>>

\* What GetFileType can answer: FILE_TYPE_DISK, or anything else (a pipe, a
\* character device, unknown).
FileTypes == {"disk", "other"}

\* A filter that lets every type of handle through.
IsDiskFileAny(t) == TRUE

\* Line 473: the handle is a disk file.
IsDiskFile(t) == t = "disk"

\* Lines 472-474: GetFileType(dupHandle); only FILE_TYPE_DISK goes on.
Classify ==
    /\ pc = "type"
    /\ \E t \in FileTypes :
          /\ calls' = [calls EXCEPT !.type = t]
          /\ IF IsDiskFile(t) THEN pc' = "query" /\ UNCHANGED <<i, attempts>> ELSE Continue
    /\ UNCHANGED <<inputs, PhHeapHandle, enumVars, status, handles, nameVars, pid, cur_pid,
                   last_access_denied_pid, dupHandle, processHandle, handleInfo,
                   reportVars, result, nAlloc, handleGhosts, exitBy>>

\* A retry loop that never gives up.
MoreAttemptsAlways(a) == TRUE

\* Line 489, while (--attempts): another call follows.
MoreAttempts(a) == a - 1 # 0

\* Lines 477-494: one NtQueryObject call of the do-while loop, the
\* reallocation that may follow it, and the test of the status on leaving.
QueryName ==
    /\ pc = "query"
    /\ \/ \* the name is resolved into the buffer
          /\ buffer.ptr
          /\ calls' = [calls EXCEPT !.query = TRUE, !.last = "ok"]
          /\ \E nm \in Names :
                /\ bufferSize >= NeededSize(nm)
                /\ buffer' = [buffer EXCEPT !.Name = NameRecord(nm)]
          /\ pc' = "match"
          \* (break: attempts is not read again before the block is left)
          /\ attempts' = 0
          /\ UNCHANGED <<bufferSize, nAlloc, i>>
       \/ \* the buffer is reported too small: free, allocate the reported size
          \* (STATUS_BUFFER_OVERFLOW, STATUS_INFO_LENGTH_MISMATCH or
          \* STATUS_BUFFER_TOO_SMALL, which line 480 treats alike)
          \E returnSize \in ReturnSizes, allocated \in BOOLEAN :
             /\ calls' = [calls EXCEPT !.query = TRUE, !.last = "retry"]
             /\ bufferSize' = returnSize
             /\ buffer' = [ptr |-> allocated, Name |-> NameRecord(<< >>)]
             /\ nAlloc' = nAlloc - (IF buffer.ptr THEN 1 ELSE 0)
                                 + (IF allocated THEN 1 ELSE 0)
             /\ IF MoreAttempts(attempts)
                THEN pc' = "query" /\ i' = i /\ attempts' = attempts - 1
                ELSE Continue
       \/ \* any other failure
          /\ calls' = [calls EXCEPT !.query = TRUE, !.last = "fail"]
          /\ Continue
          /\ UNCHANGED <<buffer, bufferSize, nAlloc>>
    /\ UNCHANGED <<inputs, PhHeapHandle, enumVars, status, handles, wHandleName,
                   wHandleNameLen, pid, cur_pid, last_access_denied_pid, dupHandle,
                   processHandle, handleInfo, reportVars, result, handleGhosts, exitBy>>

\* A report that prints every resolved path.
PathDiffersAlways(e) == TRUE

\* Line 516: the path just resolved differs from the one in the other slot.
PathDiffers(e) == e[0] # e[1]

\* Lines 496-522: the match test and the report of the owning process.
Match ==
    /\ pc = "match"
    /\ IF MatchTest(wHandleName, wHandleNameLen, bPartialMatch, buffer.Name)
       THEN /\ bFound' = TRUE
            /\ nPassed' = nPassed + 1
            /\ LET hdr == IF ~ bFound THEN Append(out, Line("header", 0)) ELSE out
               IN  \/ \* GetModuleFileNameExU resolves the path into exe[cur_exe]
                      \E p \in Paths :
                        LET exe1 == [exe EXCEPT ![cur_exe] = p]
                        IN  /\ exe' = exe1
                            /\ calls' = [calls EXCEPT !.tested = TRUE, !.match = TRUE,
                                                      !.path = p]
                            /\ IF PathDiffers(exe1)
                               THEN /\ out' = Append(hdr, Line("path", exe1[cur_exe]))
                                    /\ cur_exe' = (cur_exe + 1) % 2
                               ELSE /\ out' = hdr
                                    /\ cur_exe' = cur_exe
                   \/ \* it fails
                      /\ out' = Append(hdr, Line("unknown", 0))
                      /\ calls' = [calls EXCEPT !.tested = TRUE, !.match = TRUE]
                      /\ UNCHANGED <<exe, cur_exe>>
       ELSE /\ calls' = [calls EXCEPT !.tested = TRUE]
            /\ UNCHANGED <<bFound, nPassed, out, exe, cur_exe>>
    /\ Continue
    /\ UNCHANGED <<inputs, PhHeapHandle, enumVars, status, handles, nameVars, pid, cur_pid,
                   last_access_denied_pid, dupHandle, processHandle, handleInfo, result,
                   nAlloc, handleGhosts, exitBy>>

Next ==
    \/ SearchBegin
    \/ EnumQuery
    \/ Setup
    \/ LoopHead
    \/ LoopFault
    \/ OpenProcess
    \/ Duplicate
    \/ Classify
    \/ QueryName
    \/ Match

Spec == Init /\ [][Next]_vars

\* ---------------------------------------------------------- properties
\* The iteration of record calls.idx is over (its `continue` was taken).
IterationOver == pc = "head" /\ i = calls.idx + 1

\* a is a prefix of b, character by character.
IsPrefix(a, b) == Len(a) <= Len(b) /\ \A k \in 1..Len(a) : a[k] = b[k]

\* The process lines printed so far.
IsPathLine(l) == l.t = "path"
PathLines(o) == SelectSeq(o, IsPathLine)

\* C1: once SearchProcess has returned, the value is TRUE exactly when at
\* least one candidate passed the match test during the call, and it is FALSE
\* after every early abort (capability, heap, snapshot, name buffer).
ReturnsTrueIffMatched ==
    pc = "done" => /\ result = (nPassed > 0)
                   /\ exitBy \in {"status", "alloc"} => ~ result

\* A call that went through the whole snapshot and returned TRUE.
ReturnedTrueAfterMatch == pc = "done" /\ exitBy = "end" /\ result /\ nPassed > 0

\* C2: in exact mode a candidate whose resolved name is character for
\* character the (non-empty) target passes the match test and sets the found
\* flag.
ExactAcceptsIdentical ==
    (IterationOver /\ calls.tested /\ ~ bPartialMatch
         /\ wHandleName # << >> /\ buffer.Name.Buffer = wHandleName)
        => (calls.match /\ bFound)

\* C3: in exact mode a candidate whose resolved name has another number of
\* characters than the target is not a match: the step that tests it prints
\* nothing and leaves the found flag as it was.
ExactRejectsOtherLengths ==
    [][(pc = "match" /\ ~ bPartialMatch
            /\ Len(buffer.Name.Buffer) # Len(wHandleName))
          => (~ calls'.match /\ bFound' = bFound /\ out' = out
                /\ nPassed' = nPassed)]_vars

\* Exact mode, a target one character longer than the name, which is its
\* prefix: tested, rejected, nothing found.
ExactRejectedShorterName ==
    /\ IterationOver /\ calls.tested /\ ~ bPartialMatch
    /\ wHandleName = <<1, 2>> /\ buffer.Name.Buffer = <<1>>
    /\ ~ calls.match /\ ~ bFound /\ out = << >>

\* C4: in partial mode a resolved name matches exactly when the target is a
\* prefix of it; a name shorter than the target never matches.
PartialIsPrefixTest ==
    (calls.tested /\ bPartialMatch)
        => (calls.match <=> IsPrefix(wHandleName, buffer.Name.Buffer))

\* Partial mode, a name that goes on after the target: matched.
PartialMatchedLongerName ==
    /\ IterationOver /\ calls.tested /\ bPartialMatch /\ calls.match
    /\ wHandleName = <<1>> /\ buffer.Name.Buffer = <<1, 2>>

\* C5: with bIgnoreSelf = FALSE no duplication call is issued for a record of
\* the caller's own process, and the raw handle value of such a record is
\* never given to NtClose (stated for the scan up to the end of the snapshot,
\* before any record past the declared count has been passed over).
SelfHandleNeverClosed ==
    (~ bIgnoreSelf /\ i <= handles.NumberOfHandles) =>
        /\ handleInfo.UniqueProcessId = SelfPid => calls.dup = 0
        /\ \A k \in 1..Len(handles.Handles) :
              handles.Handles[k].UniqueProcessId = SelfPid
                  => handles.Handles[k].HandleValue \notin badClose

\* C6: with bIgnoreSelf = TRUE a record of the caller's own process never
\* reaches the duplication, the classification, the name query or the match
\* test, and no step of its iteration prints a line or changes the found flag.
IgnoredSelfIsSkipped ==
    /\ []((bIgnoreSelf /\ handleInfo.UniqueProcessId = SelfPid)
            => (pc \notin {"type", "query", "match"} /\ calls.dup = 0
                  /\ ~ calls.query /\ ~ calls.tested /\ ~ calls.match))
    /\ [][(bIgnoreSelf /\ handleInfo'.UniqueProcessId = SelfPid /\ pc' # "done")
            => (bFound' = bFound /\ out' = out)]_vars

\* An own record of the snapshot was opened (the pseudo-handle) and skipped.
IgnoredSelfWasSkipped ==
    /\ bIgnoreSelf /\ IterationOver /\ calls.idx < handles.NumberOfHandles
    /\ handleInfo.UniqueProcessId = SelfPid /\ calls.open = "SUCCESS"
    /\ processHandle = NtCurrentProcess

\* C7: PhOpenProcess is attempted only on a record of the snapshot that is
\* the first of its run of equal process ids, hence at most once per run, and
\* never for the id the memo holds; the later records of a run are handled
\* with no open call.
OpenOncePerRun ==
    calls.open # "" =>
        /\ calls.idx < handles.NumberOfHandles
        /\ Len(handles.Handles) > calls.idx
        /\ calls.idx > 0 =>
              handles.Handles[calls.idx].UniqueProcessId
                  # handles.Handles[calls.idx + 1].UniqueProcessId
        /\ handleInfo.UniqueProcessId = last_access_denied_pid
              => calls.open = "ACCESS_DENIED"

\* A later record of a run whose first record failed to open: it reached the
\* duplication with no open call.
RunReusedAfterOpenFailure ==
    /\ pc = "dup" /\ i > 0 /\ calls.open = "" /\ processHandle = NULL
    /\ handles.Handles[i].UniqueProcessId = handles.Handles[i + 1].UniqueProcessId
    /\ handleInfo.UniqueProcessId \notin {0, SelfPid}

\* C8: a record whose process id is the one the memo holds is skipped with
\* no open attempt, no duplication and no name query; the memo changes only
\* when an open fails with STATUS_ACCESS_DENIED, to the id of that process.
DeniedMemoSkips ==
    /\ [](handleInfo.UniqueProcessId = last_access_denied_pid
            => (pc \notin {"open", "dup", "type", "query", "match"}
                  /\ calls.open \in {"", "ACCESS_DENIED"}
                  /\ calls.dup = 0 /\ ~ calls.query))
    /\ [][last_access_denied_pid' # last_access_denied_pid
            => (pc = "open" /\ calls'.open = "ACCESS_DENIED"
                  /\ last_access_denied_pid' = handleInfo.UniqueProcessId)]_vars

\* A record of the snapshot was skipped for a memo that an earlier failure
\* stored, two records after the first.
SkippedByDeniedMemo ==
    /\ IterationOver /\ calls.idx = 2 /\ calls.idx < handles.NumberOfHandles
    /\ calls.open = "" /\ last_access_denied_pid # 0
    /\ handleInfo.UniqueProcessId = last_access_denied_pid
    /\ handles.Handles[2].UniqueProcessId # last_access_denied_pid

\* C9: a resolved path is printed unless it equals the last printed path: no
\* two successive process lines are equal, and after a match whose path
\* resolved the last process line is that path.
DedupAgainstLastPrinted ==
    LET ps == PathLines(out)
    IN  /\ \A k \in 1..(Len(ps) - 1) : ps[k].p # ps[k + 1].p
        /\ (calls.match /\ calls.path # 0)
              => (ps # << >> /\ ps[Len(ps)].p = calls.path)

\* Three matches with the paths A, B, A printed three process lines.
PrintedABA ==
    /\ nPassed = 3
    /\ PathLines(out) = <<Line("path", 1), Line("path", 2), Line("path", 1)>>

\* C10: once the doubled size is past PH_LARGE_BUFFER_SIZE the snapshot
\* fails with STATUS_INSUFFICIENT_RESOURCES, no buffer stays allocated and
\* the caller's pointer stays NULL; SearchProcess examines no record, prints
\* the warning and the not-identified summary only, and returns FALSE.
CeilingFailsTheSearch ==
    /\ enumBufferSize > PH_LARGE_BUFFER_SIZE => status = "INSUFFICIENT_RESOURCES"
    /\ status = "INSUFFICIENT_RESOURCES" =>
          /\ pc = "done" /\ ~ result
          /\ ~ enumBuffer /\ handles = NoSnapshot /\ nAlloc = 0
          /\ i = 0 /\ calls = NoCalls(0) /\ nPassed = 0 /\ ~ bFound
          /\ out = <<Line("warning", 0), Line("notfound", 0)>>

\* The doubling went past the ceiling and the call returned.
CeilingWasExceeded ==
    /\ pc = "done" /\ status = "INSUFFICIENT_RESOURCES"
    /\ enumBufferSize > PH_LARGE_BUFFER_SIZE

\* C11: NtQueryObject is issued only on a handle that GetFileType has just
\* classified as a disk file; a candidate classified as anything else is
\* skipped at once, with no name query, no match test and no report.
QueryOnlyDiskFiles ==
    /\ (pc \in {"query", "match"} \/ calls.query \/ calls.tested)
          => calls.type = "disk"
    /\ calls.type = "other"
          => (pc \notin {"query", "match"} /\ i = calls.idx + 1
                /\ ~ calls.query /\ calls.last = ""
                /\ ~ calls.tested /\ ~ calls.match /\ calls.path = 0)

\* A handle of another process was duplicated, classified as not a disk file
\* and skipped.
SkippedNotDisk ==
    /\ IterationOver /\ calls.type = "other" /\ calls.dup = 1
    /\ calls.idx < handles.NumberOfHandles /\ ~ calls.query

\* The lines of the report, by kind.
IsSummaryLine(l) == l.t \in {"close", "notfound"}
IsHeaderLine(l) == l.t = "header"

\* C12: once SearchProcess has returned, exactly one summary line was printed
\* and it is the last line: the close-applications line when a candidate
\* matched, the not-identified line otherwise; before the return no summary
\* line is printed; the header is printed at most once and before every
\* process line.
OneSummaryLast ==
    LET n == Len(out)
    IN  /\ pc = "done"
              => /\ n > 0
                 /\ Len(SelectSeq(out, IsSummaryLine)) = 1
                 /\ out[n] = Line(IF nPassed > 0 THEN "close" ELSE "notfound", 0)
        /\ pc # "done" => SelectSeq(out, IsSummaryLine) = << >>
        /\ Len(SelectSeq(out, IsHeaderLine)) <= 1
        /\ \A k \in 1..n :
              out[k].t \in {"path", "unknown"}
                  => \E j \in 1..(k - 1) : out[j].t = "header"

\* A cancelled call after one reported match: header, process line, summary.
CancelledAfterReport ==
    /\ pc = "done" /\ exitBy = "cancel"
    /\ out = <<Line("header", 0), Line("path", 1), Line("close", 0)>>

\* C13: a candidate that is skipped does not end the scan: once the loop has
\* begun it is left only by cancellation or at the end of the snapshot, the
\* records are read one after the other with none passed over, the end is
\* reached only when every record below the declared count has had its
\* iteration, and a candidate that passes the match test is reported
\* whatever was skipped before it.
SkipsDoNotEndTheScan ==
    LET n == handles.NumberOfHandles
    IN  /\ (pc = "done" /\ exitBy = "end")
              => (i >= n /\ Len(handles.Handles) = n)
        /\ exitBy \in {"status", "alloc"} => (i = 0 /\ handles.Handles = << >>)
        /\ pc = "fault" => i >= n
        /\ pc \in {"open", "dup", "type", "query", "match"}
              => (i < n /\ Len(handles.Handles) = i + 1 /\ calls.idx = i)
        /\ pc = "head" => Len(handles.Handles) = (IF i < n THEN i ELSE n)
        /\ calls.match
              => (bFound /\ nPassed > 0 /\ SelectSeq(out, IsHeaderLine) # << >>)

\* The third record, of a process other than the one an earlier access-denied
\* failure put in the memo, was opened, matched and reported as the first.
ReportedAfterEarlierFailure ==
    /\ IterationOver /\ calls.idx = 2 /\ calls.open = "SUCCESS"
    /\ calls.match /\ calls.path # 0 /\ nPassed = 1
    /\ last_access_denied_pid # 0
    /\ handles.Handles[1].UniqueProcessId = last_access_denied_pid
    /\ handleInfo.UniqueProcessId \notin {last_access_denied_pid, SelfPid}
    /\ PathLines(out) = <<Line("path", calls.path)>>

\* The handles NtOpenProcess and NtDuplicateObject have given so far.
IsProcHandle(h) == \E k \in 0..i : h = ProcHandle(k)
IsDupHandle(h) == \E k \in 0..i : h = DupHandle(k)

\* C14: a handle NtOpenProcess gave is closed exactly once, before the slot
\* receives another one and before SearchProcess returns; the pseudo-handle
\* of the current process is never given to NtClose.  (The return is stated
\* for a call that ends inside the snapshot, i below the declared count.)
ProcessHandleClosedOnce ==
    /\ NtCurrentProcess \notin badClose
    /\ \A h \in badClose : ~ IsProcHandle(h)
    /\ Cardinality({h \in owned : IsProcHandle(h)}) <= 1
    /\ (pc = "done" /\ i < handles.NumberOfHandles)
          => {h \in owned : IsProcHandle(h)} = {}

\* C15: a handle NtDuplicateObject gave is closed exactly once: at most one
\* is live, and it is the one dupHandle holds; none is live when the next
\* duplication is made nor when SearchProcess returns; none is closed twice.
DupHandleClosedOnce ==
    LET live == {h \in owned : IsDupHandle(h)}
    IN  /\ Cardinality(live) <= 1
        /\ live # {} => live = {dupHandle}
        /\ pc = "dup" => live = {}
        /\ pc = "done" => live = {}
        /\ \A h \in badClose : ~ IsDupHandle(h)

\* Two candidates of other processes were duplicated and matched, the call
\* was cancelled at the third record, and no duplicated handle is live.
ReturnedWithDupsClosed ==
    /\ pc = "done" /\ exitBy = "cancel" /\ bIgnoreSelf /\ nPassed = 2 /\ i = 2
    /\ {h \in owned : IsDupHandle(h)} = {}

\* C16: the counter is 8 when the name query of a candidate begins and every
\* call that asks for another buffer takes one off it, so a candidate gets
\* at most 8 NtQueryObject calls; when the call made with the counter at 1
\* (the 8th) still asks for another buffer the candidate is skipped with no
\* match test and the scan goes to the next record; the match test is
\* reached only after a call that succeeded.
QueryAtMostEightTimes ==
    /\ []((pc \in {"open", "dup", "type"} => attempts = MaxAttempts)
            /\ (pc = "query" => attempts \in 1..MaxAttempts))
    /\ [][pc = "query" =>
            /\ pc' = "query"
                  => (attempts' = attempts - 1 /\ calls'.last = "retry" /\ i' = i)
            /\ (attempts = 1 /\ calls'.last = "retry")
                  => (pc' = "head" /\ i' = i + 1 /\ ~ calls'.tested
                        /\ bFound' = bFound /\ out' = out)
            /\ pc' = "match" => calls'.last = "ok"]_vars

\* A candidate whose 8 calls all asked for another buffer: skipped, untested.
EightCallsThenSkipped ==
    /\ IterationOver /\ calls.last = "retry" /\ ~ calls.tested
    /\ calls.idx + 1 < handles.NumberOfHandles

\* C17: no NtQueryObject call and no match test is made with a name buffer
\* whose allocation failed: the name query and the match test always find
\* an allocated buffer.
NullBufferNeverUsed == pc \in {"query", "match"} => buffer.ptr

\* C18: the record the loop has read is a record of the snapshot: no field of
\* handles->Handles[i] is read at an index at or past the declared count, in
\* any iteration and on the way out of the loop.
ReadsInsideSnapshot ==
    (\/ pc \in {"open", "dup", "type", "query", "match"}
     \/ (pc = "head" /\ i > 0)
     \/ (pc = "done" /\ exitBy \in {"cancel", "end"}))
        => \E k \in 1..Len(handles.Handles) : handleInfo = handles.Handles[k]

\* C19: the loop is left at the first iteration whose index is at or past the
\* declared count, so the index never goes beyond that count.
LeavesAtDeclaredCount == i <= handles.NumberOfHandles

\* C20: NtDuplicateObject and the executable-path lookup are given a live
\* process handle, opened for the process id of the candidate examined.
LiveProcessHandleForDup ==
    (pc \in {"dup", "match"} /\ processHandle # NtCurrentProcess)
        => /\ processHandle \in owned
           /\ \E k \in 0..i :
                 /\ processHandle = ProcHandle(k)
                 /\ handles.Handles[k + 1].UniqueProcessId = handleInfo.UniqueProcessId

====
